---- MODULE Spec2Model ----
(***************************************************************************)
(* A model of audio-interrogator (src/main.rs, src/devices/types.rs).      *)
(*                                                                         *)
(* Strings are sequences of one-character strings, so that starts_with,    *)
(* contains, find, replace, trim, to_lowercase and slicing are computed    *)
(* character by character, as the Rust standard library computes them.     *)
(* Option<T> is a record [some, v]; a call that may panic yields a record  *)
(* [ok, val] with ok = FALSE standing for the panic (the process aborts).  *)
(***************************************************************************)
EXTENDS Integers, Sequences, FiniteSets, TLC

VARIABLES
    pc,            \* position of main(): "start", "cpal", "alsa", "aggregated", "final", "panicked"
    cards_file,    \* content of /proc/asound/cards seen by this run
    cpal_result,   \* Result<Vec<AudioDeviceInfo>> of get_cpal_devices
    alsa_result,   \* Result<Vec<AudioDeviceInfo>> of get_alsa_devices
    snapshot,      \* SystemAudioInfo returned by get_system_audio_info
    system_info,   \* main's system_info after filtering and recounting
    args,          \* main's card_filter, device_filter, show_all
    flt,           \* filter_devices applied to a list, and to its own output
    prb,           \* one probe of a well-known name by get_alsa_devices
    crd,           \* one run of the card metadata parsers
    pcm            \* one call of read_pcm_info on a pcm directory

vars ==
    <<pc, cards_file, cpal_result, alsa_result, snapshot, system_info, args, flt, prb, crd, pcm>>

(***************************************************************************)
(* Bounds of the model.                                                    *)
(***************************************************************************)
MaxLen == 2          \* longest device list handed to filter_devices
MaxLines == 2        \* most lines of a card listing file
MaxCpal == 1         \* most devices the audio API's host exposes

(***************************************************************************)
(* String literals of the source.                                          *)
(***************************************************************************)
L_plughw == <<"p","l","u","g","h","w",":">>
L_hw == <<"h","w",":">>
L_hw0 == <<"h","w",":","0">>
L_card == <<"c","a","r","d">>
L_CARDEQ == <<"C","A","R","D","=">>
L_default == <<"d","e","f","a","u","l","t">>
L_dmix == <<"d","m","i","x",":">>
L_dsnoop == <<"d","s","n","o","o","p",":">>
L_surround == <<"s","u","r","r","o","u","n","d">>
L_iec958 == <<"i","e","c","9","5","8",":">>
L_dash == <<" ","-"," ">>
L_lbracket == <<"[">>
L_rbracket == <<"]">>

(***************************************************************************)
(* Option and panic encodings.                                             *)
(***************************************************************************)
None == [some |-> FALSE, v |-> <<>>]
Some(x) == [some |-> TRUE, v |-> x]
Ok(x) == [ok |-> TRUE, val |-> x]
Panic == [ok |-> FALSE, val |-> <<>>]
Idle == [stage |-> "idle"]

(***************************************************************************)
(* str methods of the Rust standard library.                               *)
(***************************************************************************)
\* str::starts_with
StartsWith(s, p) == Len(s) >= Len(p) /\ SubSeq(s, 1, Len(p)) = p

\* str::ends_with
EndsWith(s, p) == Len(s) >= Len(p) /\ SubSeq(s, Len(s) - Len(p) + 1, Len(s)) = p

\* str::find: the 0-based index of the first match, or None
MatchAt(s, p, i) == i + Len(p) <= Len(s) /\ SubSeq(s, i + 1, i + Len(p)) = p
Find(s, p) ==
    LET hits == {i \in 0..Len(s) : MatchAt(s, p, i)}
    IN IF hits = {} THEN None
       ELSE Some(CHOOSE i \in hits : \A j \in hits : i <= j)

\* str::contains
Contains(s, p) == Find(s, p).some

\* str::replace: every non-overlapping match, left to right
RECURSIVE Replace(_, _, _)
Replace(s, from, to) ==
    IF s = <<>> THEN <<>>
    ELSE IF from # <<>> /\ MatchAt(s, from, 0)
         THEN to \o Replace(SubSeq(s, Len(from) + 1, Len(s)), from, to)
         ELSE <<Head(s)>> \o Replace(Tail(s), from, to)

\* char::to_lowercase on the letters the model's strings use
LowerChar(c) ==
    CASE c = "A" -> "a" [] c = "B" -> "b" [] c = "C" -> "c" [] c = "D" -> "d"
      [] c = "E" -> "e" [] c = "F" -> "f" [] c = "G" -> "g" [] c = "H" -> "h"
      [] c = "I" -> "i" [] c = "J" -> "j" [] c = "K" -> "k" [] c = "L" -> "l"
      [] c = "M" -> "m" [] c = "N" -> "n" [] c = "O" -> "o" [] c = "P" -> "p"
      [] c = "Q" -> "q" [] c = "R" -> "r" [] c = "S" -> "s" [] c = "T" -> "t"
      [] c = "U" -> "u" [] c = "V" -> "v" [] c = "W" -> "w" [] c = "X" -> "x"
      [] c = "Y" -> "y" [] c = "Z" -> "z" [] OTHER -> c

\* str::to_lowercase
ToLower(s) == [i \in 1..Len(s) |-> LowerChar(s[i])]

\* char::is_whitespace on the characters the model's strings use
IsSpace(c) == c \in {" ", "\t", "\n", "\r"}

\* str::trim
RECURSIVE TrimStart(_)
TrimStart(s) == IF s # <<>> /\ IsSpace(Head(s)) THEN TrimStart(Tail(s)) ELSE s
RECURSIVE TrimEnd(_)
TrimEnd(s) ==
    IF s # <<>> /\ IsSpace(s[Len(s)]) THEN TrimEnd(SubSeq(s, 1, Len(s) - 1)) ELSE s
Trim(s) == TrimEnd(TrimStart(s))

\* str::split_whitespace().next()
RECURSIVE TakeWord(_)
TakeWord(s) ==
    IF s = <<>> \/ IsSpace(Head(s)) THEN <<>> ELSE <<Head(s)>> \o TakeWord(Tail(s))
FirstWord(s) ==
    LET t == TrimStart(s) IN IF t = <<>> THEN None ELSE Some(TakeWord(t))

\* &s[a..b] on a string of one-byte characters: panics unless a <= b <= len
Slice(s, a, b) == IF a <= b /\ b <= Len(s) THEN Ok(SubSeq(s, a + 1, b)) ELSE Panic

\* str::strip_prefix
StripPrefix(s, p) == IF StartsWith(s, p) THEN Some(SubSeq(s, Len(p) + 1, Len(s))) ELSE None

(***************************************************************************)
(* AudioDeviceInfo                                                         *)
(***************************************************************************)
\* AudioDeviceInfo::update_device_type, and the same match in the enumerators
DeviceType(input_channels, output_channels) ==
    IF input_channels > 0 /\ output_channels > 0 THEN "Input/Output"
    ELSE IF input_channels > 0 THEN "Input"
    ELSE IF output_channels > 0 THEN "Output"
    ELSE "Unknown"

\* AudioDeviceInfo::new
NewDevice(name, driver) ==
    [name |-> name, device_type |-> "Unknown", input_channels |-> 0,
     output_channels |-> 0, supported_sample_rates |-> <<>>, driver |-> driver]

\* update_device_type not called: the type AudioDeviceInfo::new gave stays
UpdateDeviceType_Skipped(d) == d

\* AudioDeviceInfo::update_device_type
UpdateDeviceType(d) ==
    [d EXCEPT !.device_type = DeviceType(d.input_channels, d.output_channels)]

(***************************************************************************)
(* Card metadata parsers.  A card listing file is "missing" (unreadable)   *)
(* or the sequence of its lines, as contents.lines() yields them.          *)
(***************************************************************************)
NoFile == [readable |-> FALSE, lines |-> <<>>]
File(lines) == [readable |-> TRUE, lines |-> lines]

\* HashMap::insert
Insert(map, k, v) == [x \in DOMAIN map \cup {k} |-> IF x = k THEN v ELSE map[x]]
EmptyMap == [x \in {} |-> <<>>]

\* one line of get_card_mapping: the map after the line, or a panic
MappingLine(map, line) ==
    LET st == StripPrefix(line, <<" ">>) IN
    IF ~st.some THEN Ok(map) ELSE
    LET stripped == st.v
        bracket_start == Find(stripped, L_lbracket)
        bracket_end == Find(stripped, L_rbracket)
        card_num == FirstWord(stripped)
    IN IF ~bracket_start.some \/ ~bracket_end.some \/ ~card_num.some THEN Ok(map)
       ELSE LET sl == Slice(stripped, bracket_start.v + 1, bracket_end.v)
            IN IF sl.ok THEN Ok(Insert(map, card_num.v, Trim(sl.val))) ELSE Panic

\* one line of get_card_descriptions
DescriptionLine(map, line) ==
    LET st == StripPrefix(line, <<" ">>) IN
    IF ~st.some THEN Ok(map) ELSE
    LET stripped == st.v
        bracket_start == Find(stripped, L_lbracket)
        bracket_end == Find(stripped, L_rbracket)
        dash_pos == Find(stripped, L_dash)
    IN IF ~bracket_start.some \/ ~bracket_end.some \/ ~dash_pos.some THEN Ok(map)
       ELSE LET sl == Slice(stripped, bracket_start.v + 1, bracket_end.v)
                ds == Slice(stripped, dash_pos.v + 3, Len(stripped))
            IN IF sl.ok /\ ds.ok THEN Ok(Insert(map, Trim(sl.val), Trim(ds.val)))
               ELSE Panic

RECURSIVE MappingLoop(_, _)
MappingLoop(map, lines) ==
    IF lines = <<>> THEN Ok(map)
    ELSE LET r == MappingLine(map, Head(lines))
         IN IF r.ok THEN MappingLoop(r.val, Tail(lines)) ELSE Panic

RECURSIVE DescriptionLoop(_, _)
DescriptionLoop(map, lines) ==
    IF lines = <<>> THEN Ok(map)
    ELSE LET r == DescriptionLine(map, Head(lines))
         IN IF r.ok THEN DescriptionLoop(r.val, Tail(lines)) ELSE Panic

\* get_card_mapping: Ok(card number -> card name), or a panic
GetCardMapping(file) ==
    IF file.readable THEN MappingLoop(EmptyMap, file.lines) ELSE Ok(EmptyMap)

\* get_card_descriptions: Ok(card name -> description), or a panic
GetCardDescriptions(file) ==
    IF file.readable THEN DescriptionLoop(EmptyMap, file.lines) ELSE Ok(EmptyMap)

(***************************************************************************)
(* filter_devices                                                          *)
(***************************************************************************)
\* CardNum with the token taken as it is given
CardNum_Unstripped(card_id) == card_id

\* card_num: the token with one leading "card" stripped
CardNum(card_id) ==
    IF StartsWith(card_id, L_card) THEN StripPrefix(card_id, L_card).v ELSE card_id

\* the card filter's closure: whether a device name is kept
CardFilterKeeps(name, card_id, card_mapping) ==
    LET card_num == CardNum(card_id)
        target_card_name ==
            IF card_num \in DOMAIN card_mapping THEN Some(card_mapping[card_num]) ELSE None
    IN \/ Contains(name, L_hw \o card_num)
       \/ Contains(name, L_card \o card_num)
       \/ (target_card_name.some /\ Contains(name, L_CARDEQ \o target_card_name.v))
       \/ Contains(name, L_CARDEQ \o card_id)

\* the name filter's closure
NameFilterKeeps(name, name_filter, card_descriptions) ==
    LET name_lower == ToLower(name_filter)
    IN \/ Contains(ToLower(name), name_lower)
       \/ \E card_name \in DOMAIN card_descriptions :
              /\ Contains(ToLower(card_descriptions[card_name]), name_lower)
              /\ Contains(name, L_CARDEQ \o card_name)

\* IsVirtual with the "iec958:" test forgotten
IsVirtual_NoIec(name) ==
    \/ StartsWith(name, L_dmix)
    \/ StartsWith(name, L_dsnoop)
    \/ StartsWith(name, L_surround)

\* the virtual prefixes the dedup stage skips
IsVirtual(name) ==
    \/ StartsWith(name, L_dmix)
    \/ StartsWith(name, L_dsnoop)
    \/ StartsWith(name, L_surround)
    \/ StartsWith(name, L_iec958)

\* simplified_name
SimplifiedName(name) ==
    IF StartsWith(name, L_plughw) THEN Replace(name, L_plughw, L_hw) ELSE name

\* DedupStep with the result of the seen_names test inverted
DedupStep_Inverted(name, seen_names) ==
    IF IsVirtual(name) THEN <<FALSE, seen_names>>
    ELSE IF SimplifiedName(name) \in seen_names THEN <<TRUE, seen_names>>
    ELSE <<FALSE, seen_names \cup {SimplifiedName(name)}>>

\* the dedup stage's closure on one device: <<kept, seen_names after it>>
DedupStep(name, seen_names) ==
    IF IsVirtual(name) THEN <<FALSE, seen_names>>
    ELSE IF SimplifiedName(name) \in seen_names THEN <<FALSE, seen_names>>
    ELSE <<TRUE, seen_names \cup {SimplifiedName(name)}>>

RECURSIVE DedupLoop(_, _)
DedupLoop(devs, seen_names) ==
    IF devs = <<>> THEN <<>>
    ELSE LET r == DedupStep(Head(devs).name, seen_names)
         IN (IF r[1] THEN <<Head(devs)>> ELSE <<>>) \o DedupLoop(Tail(devs), r[2])

\* the card filter stage on the incoming list; card_mapping is the result of
\* get_card_mapping, which the stage calls only with a card filter given.
\* Ok(list), or the panic of get_card_mapping
CardStage(devs, card_filter, card_mapping) ==
    IF ~card_filter.some THEN Ok(devs)
    ELSE IF ~card_mapping.ok THEN Panic
    ELSE Ok(SelectSeq(devs, LAMBDA d : CardFilterKeeps(d.name, card_filter.v, card_mapping.val)))

\* the name filter stage on the card stage's result; card_descriptions is the
\* result of get_card_descriptions, which the stage calls only with a name filter
\* given.  Ok(list), or a panic
NameStage(carded, device_filter, card_descriptions) ==
    IF ~carded.ok THEN Panic
    ELSE IF ~device_filter.some THEN carded
    ELSE IF ~card_descriptions.ok THEN Panic
    ELSE Ok(SelectSeq(carded.val,
                      LAMBDA d : NameFilterKeeps(d.name, device_filter.v, card_descriptions.val)))

\* the dedup stage on the name stage's result
DedupStage(named, show_all) ==
    IF ~named.ok THEN Panic
    ELSE IF show_all THEN named
    ELSE Ok(DedupLoop(named.val, {}))

\* FilterDevices with the dedup stage run first, before the two filters
FilterDevices_DedupFirst(devices, card_filter, device_filter, show_all, file) ==
    NameStage(CardStage(DedupStage(Ok(devices), show_all).val, card_filter,
                        GetCardMapping(file)),
              device_filter, GetCardDescriptions(file))

\* filter_devices: Ok(filtered), or a panic
FilterDevices(devices, card_filter, device_filter, show_all, file) ==
    DedupStage(NameStage(CardStage(devices, card_filter, GetCardMapping(file)),
                         device_filter, GetCardDescriptions(file)),
               show_all)

(***************************************************************************)
(* get_alsa_devices: the capability prober on one well-known name.         *)
(* A direction's outcome is [configured, channels, rate]: configured is    *)
(* PCM::new, HwParams::any, set_access and set_format all succeeding,      *)
(* channels is get_channels_max (None on Err), rate is the pair            *)
(* (get_rate_min, get_rate_max) (None when either is Err).                 *)
(***************************************************************************)
common_rates == <<8000, 11025, 22050, 44100, 48000, 88200, 96000, 176400, 192000>>

\* RatesFromRange with the lower bound compared strictly
RatesFromRange_StrictMin(min_rate, max_rate) ==
    LET inside == SelectSeq(common_rates, LAMBDA rate : rate > min_rate /\ rate <= max_rate)
    IN IF inside = <<>> THEN <<min_rate, max_rate>> ELSE inside

\* RatesFromRange without the fallback to the endpoints
RatesFromRange_NoFallback(min_rate, max_rate) ==
    SelectSeq(common_rates, LAMBDA rate : rate >= min_rate /\ rate <= max_rate)

\* supported_rates pushed for one (min_rate, max_rate), starting from an empty list
RatesFromRange(min_rate, max_rate) ==
    LET inside == SelectSeq(common_rates, LAMBDA rate : rate >= min_rate /\ rate <= max_rate)
    IN IF inside = <<>> THEN <<min_rate, max_rate>> ELSE inside

\* the loop body of get_alsa_devices for one device_name:
\* [emitted, device, supported_rates]
ProbeName(device_name, playback, capture) ==
    LET output_channels ==
            IF playback.configured /\ playback.channels.some THEN playback.channels.v ELSE 0
        rates_after_playback ==
            IF playback.configured /\ playback.rate.some
            THEN RatesFromRange(playback.rate.v[1], playback.rate.v[2])
            ELSE <<>>
        input_channels ==
            IF capture.configured /\ capture.channels.some THEN capture.channels.v ELSE 0
        supported_rates ==
            IF capture.configured /\ rates_after_playback = <<>> /\ capture.rate.some
            THEN RatesFromRange(capture.rate.v[1], capture.rate.v[2])
            ELSE rates_after_playback
    IN [emitted |-> input_channels > 0 \/ output_channels > 0,
        supported_rates |-> supported_rates,
        device |-> [name |-> device_name,
                    device_type |-> DeviceType(input_channels, output_channels),
                    input_channels |-> input_channels,
                    output_channels |-> output_channels,
                    supported_sample_rates |-> supported_rates,
                    driver |-> "ALSA"]]

(***************************************************************************)
(* get_proc_alsa_devices, read_pcm_info, parse_stream_channels.            *)
(* The tree under /proc/asound/ is [readable, entries]; an entry of the    *)
(* root is [name, readable, stream0, entries], an entry of a card          *)
(* directory is [name, info]; stream0 and info are Option<text>, entries   *)
(* are in the order read_dir yields them.                                  *)
(***************************************************************************)
L_pcm == <<"p","c","m">>
L_PlaybackHead == <<"P","l","a","y","b","a","c","k",":">>
L_CaptureHead == <<"C","a","p","t","u","r","e",":">>
L_Channels == <<"C","h","a","n","n","e","l","s",":">>
L_avail0 == <<"s","u","b","d","e","v","i","c","e","s","_","a","v","a","i","l",":"," ","0">>
L_count1 == <<"s","u","b","d","e","v","i","c","e","s","_","c","o","u","n","t",":"," ","1">>
L_inuse == <<" ","(","I","N"," ","U","S","E",")">>
L_UnknownDevice == <<"U","n","k","n","o","w","n"," ","D","e","v","i","c","e">>

\* str::split(c): the pieces between the separators, empty pieces included
RECURSIVE SplitOn(_, _)
SplitOn(s, c) ==
    LET at == Find(s, <<c>>)
    IN IF ~at.some THEN <<s>>
       ELSE <<SubSeq(s, 1, at.v)>> \o SplitOn(SubSeq(s, at.v + 2, Len(s)), c)

\* str::lines(): split at "\n", no empty last line, the "\r" of a "\r\n" removed
RECURSIVE Lines(_)
Lines(s) ==
    IF s = <<>> THEN <<>>
    ELSE LET at == Find(s, <<"\n">>)
         IN IF ~at.some THEN <<s>>
            ELSE <<IF at.v > 0 /\ s[at.v] = "\r" THEN SubSeq(s, 1, at.v - 1)
                   ELSE SubSeq(s, 1, at.v)>>
                 \o Lines(SubSeq(s, at.v + 2, Len(s)))

Digits == <<"0","1","2","3","4","5","6","7","8","9">>
DigitValue(c) == (CHOOSE i \in 1..10 : Digits[i] = c) - 1
IsDigit(c) == \E i \in 1..10 : Digits[i] = c

RECURSIVE Decimal(_)
Decimal(s) == IF s = <<>> THEN 0 ELSE 10 * Decimal(SubSeq(s, 1, Len(s) - 1)) + DigitValue(s[Len(s)])

\* whether a string of digits denotes a value of at most u32::MAX = 4294967295
RECURSIVE StripZeros(_)
StripZeros(s) == IF Len(s) > 1 /\ Head(s) = "0" THEN StripZeros(Tail(s)) ELSE s
FitsU32(digits) ==
    LET d == StripZeros(digits)
    IN \/ Len(d) < 10
       \/ /\ Len(d) = 10
          /\ \/ Decimal(SubSeq(d, 1, 5)) < 42949
             \/ Decimal(SubSeq(d, 1, 5)) = 42949 /\ Decimal(SubSeq(d, 6, 10)) <= 67295

\* str::parse::<u32>: an optional "+", then digits, the value at most u32::MAX
ParseU32(s) ==
    LET t == IF s # <<>> /\ Head(s) = "+" THEN Tail(s) ELSE s
    IN IF t = <<>> \/ (\E i \in DOMAIN t : ~IsDigit(t[i])) \/ ~FitsU32(t) THEN None
       ELSE Some(Decimal(StripZeros(t)))

\* the for loop of parse_stream_channels over the lines of the section
RECURSIVE ChannelsLoop(_)
ChannelsLoop(lines) ==
    IF lines = <<>> THEN None
    ELSE LET line == Head(lines)
             pieces == SplitOn(line, ":")
             parsed == IF Len(pieces) >= 2 THEN ParseU32(Trim(pieces[2])) ELSE None
         IN IF StartsWith(Trim(line), L_Channels) /\ parsed.some THEN parsed
            ELSE ChannelsLoop(Tail(lines))

\* parse_stream_channels
ParseStreamChannels(stream_content, stream_type) ==
    LET section_start == IF stream_type = "PLAYBACK" THEN L_PlaybackHead ELSE L_CaptureHead
        start_pos == Find(stream_content, section_start)
    IN IF ~start_pos.some THEN None
       ELSE ChannelsLoop(Lines(SubSeq(stream_content, start_pos.v + 1, Len(stream_content))))

\* device_num of read_pcm_info
DeviceNum(pcm_dir) ==
    IF Len(pcm_dir) > 4 THEN SubSeq(pcm_dir, 4, Len(pcm_dir) - 1) ELSE <<"0">>

\* the channels read_pcm_info gives the stream's direction
StreamChannels(stream0, stream_type) ==
    IF stream0.some
    THEN LET channels == ParseStreamChannels(stream0.v, stream_type)
         IN IF channels.some THEN channels.v ELSE 0
    ELSE 2

\* in_use of read_pcm_info
InUse(info_content) == Contains(info_content, L_avail0) /\ Contains(info_content, L_count1)

\* read_pcm_info: the device it builds from what it read
PcmDevice(device_name, channels, stream_type, in_use) ==
    LET fresh == NewDevice(device_name, "ALSA")
        counted == IF stream_type = "PLAYBACK"
                   THEN [fresh EXCEPT !.output_channels = channels]
                   ELSE [fresh EXCEPT !.input_channels = channels]
        typed == UpdateDeviceType(counted)
    IN IF in_use THEN [typed EXCEPT !.name = typed.name \o L_inuse] ELSE typed

\* read_pcm_info, as what its caller pushes: <<>> for None, <<Ok(device)>> for
\* Some(device), <<Panic>> for the panic of get_card_mapping
ReadPcmInfo(stream0, pcm_dir, info, stream_type, card_num, file) ==
    IF ~info.some THEN <<>>
    ELSE IF ~GetCardMapping(file).ok THEN <<Panic>>
    ELSE <<Ok(PcmDevice(L_hw \o card_num \o <<",">> \o DeviceNum(pcm_dir),
                        StreamChannels(stream0, stream_type), stream_type, InUse(info.v)))>>

\* what one entry of a card directory pushes
PcmEntryDevices(card, entry, card_num, file) ==
    (IF StartsWith(entry.name, L_pcm) /\ EndsWith(entry.name, <<"p">>)
     THEN ReadPcmInfo(card.stream0, entry.name, entry.info, "PLAYBACK", card_num, file)
     ELSE <<>>)
    \o (IF StartsWith(entry.name, L_pcm) /\ EndsWith(entry.name, <<"c">>)
        THEN ReadPcmInfo(card.stream0, entry.name, entry.info, "CAPTURE", card_num, file)
        ELSE <<>>)

RECURSIVE CardEntriesLoop(_, _, _, _)
CardEntriesLoop(card, entries, card_num, file) ==
    IF entries = <<>> THEN <<>>
    ELSE PcmEntryDevices(card, Head(entries), card_num, file)
         \o CardEntriesLoop(card, Tail(entries), card_num, file)

\* what one entry of /proc/asound/ pushes
RootEntryDevices(entry, file) ==
    IF StartsWith(entry.name, L_card) /\ entry.readable
    THEN CardEntriesLoop(entry, entry.entries, SubSeq(entry.name, 5, Len(entry.name)), file)
    ELSE <<>>

RECURSIVE RootLoop(_, _)
RootLoop(entries, file) ==
    IF entries = <<>> THEN <<>>
    ELSE RootEntryDevices(Head(entries), file) \o RootLoop(Tail(entries), file)

\* get_proc_alsa_devices: what it pushes, a Panic among it being a panic that
\* unwinds through it
GetProcAlsaDevices(tree, file) ==
    IF tree.readable THEN RootLoop(tree.entries, file) ELSE <<>>

(***************************************************************************)
(* get_alsa_devices                                                        *)
(***************************************************************************)
HwName(prefix, card, device) == prefix \o <<card, ",", device>>

\* device_names
device_names ==
    <<L_default,
      HwName(L_hw, "0", "0"), HwName(L_hw, "0", "1"), HwName(L_hw, "0", "2"), HwName(L_hw, "0", "3"),
      HwName(L_hw, "1", "0"), HwName(L_hw, "1", "1"), HwName(L_hw, "1", "2"), HwName(L_hw, "1", "3"),
      HwName(L_hw, "2", "0"), HwName(L_hw, "2", "1"), HwName(L_hw, "2", "2"), HwName(L_hw, "2", "3"),
      HwName(L_plughw, "0", "0"), HwName(L_plughw, "0", "1"),
      HwName(L_plughw, "1", "0"), HwName(L_plughw, "1", "1")>>

\* the probing loop from position i on; probes[i] is <<playback, capture>> for device_names[i]
RECURSIVE ProbeLoop(_, _)
ProbeLoop(i, probes) ==
    IF i > Len(device_names) THEN <<>>
    ELSE LET r == ProbeName(device_names[i], probes[i][1], probes[i][2])
         IN (IF r.emitted THEN <<r.device>> ELSE <<>>) \o ProbeLoop(i + 1, probes)

RECURSIVE Pushed(_)
Pushed(results) ==
    IF results = <<>> THEN <<>> ELSE <<Head(results).val>> \o Pushed(Tail(results))

\* get_alsa_devices, given what get_proc_alsa_devices pushed and what the probing
\* loop pushed
AlsaDevices(proc_results, probed) ==
    IF \E i \in DOMAIN proc_results : ~proc_results[i].ok THEN Panic
    ELSE Ok([is_ok |-> TRUE, devices |-> Pushed(proc_results) \o probed])

\* get_alsa_devices: Ok(Ok(devices)), it has no Err path; or a panic
GetAlsaDevices(tree, probes, file) ==
    AlsaDevices(GetProcAlsaDevices(tree, file), ProbeLoop(1, probes))

(***************************************************************************)
(* get_cpal_devices.  A host device is [name, default_input_config,        *)
(* default_output_config, supported_input_configs,                         *)
(* supported_output_configs]: name and the default configs are Option      *)
(* (None on Err), a default config is [channels, sample_rate], the         *)
(* supported configs are Option<Seq of <<min, max>>>.                      *)
(***************************************************************************)
\* the rates pushed for a list of config ranges
RECURSIVE PushRanges(_)
PushRanges(configs) ==
    IF configs = <<>> THEN <<>>
    ELSE <<Head(configs)[1], Head(configs)[2]>> \o PushRanges(Tail(configs))

\* sort_unstable then dedup: ascending, no repeated value
RECURSIVE SortDedup(_)
SortDedup(rates) ==
    LET S == {rates[i] : i \in DOMAIN rates}
    IN IF S = {} THEN <<>>
       ELSE LET m == CHOOSE x \in S : \A y \in S : x <= y
            IN <<m>> \o SortDedup(SelectSeq(rates, LAMBDA r : r # m))

\* the loop body of get_cpal_devices for one host device
CpalDevice(device) ==
    LET device_name == IF device.name.some THEN device.name.v ELSE L_UnknownDevice
        input_channels ==
            IF device.default_input_config.some THEN device.default_input_config.v.channels ELSE 0
        output_channels ==
            IF device.default_output_config.some THEN device.default_output_config.v.channels ELSE 0
        from_input ==
            IF device.supported_input_configs.some
            THEN PushRanges(device.supported_input_configs.v) ELSE <<>>
        pushed ==
            IF from_input = <<>> /\ device.supported_output_configs.some
            THEN PushRanges(device.supported_output_configs.v) ELSE from_input
    IN [name |-> device_name,
        device_type |-> DeviceType(input_channels, output_channels),
        input_channels |-> input_channels,
        output_channels |-> output_channels,
        supported_sample_rates |-> SortDedup(pushed),
        driver |-> "CPAL"]

\* get_cpal_devices: Err when host.devices() fails, else Ok(devices)
GetCpalDevices(host) ==
    IF ~host.some THEN [is_ok |-> FALSE, devices |-> <<>>]
    ELSE [is_ok |-> TRUE, devices |-> [i \in 1..Len(host.v) |-> CpalDevice(host.v[i])]]

(***************************************************************************)
(* get_system_audio_info and main                                          *)
(***************************************************************************)
\* iter().filter(|d| d.input_channels > 0).count()
CountInput(devices) == Cardinality({i \in DOMAIN devices : devices[i].input_channels > 0})

\* iter().filter(|d| d.output_channels > 0).count()
CountOutput(devices) == Cardinality({i \in DOMAIN devices : devices[i].output_channels > 0})

\* the default-name heuristic
LooksDefault(name) == Contains(name, L_default) \/ Contains(name, L_hw0)

\* iter().find(pred).map(|d| d.name.clone())
\* (hits: the positions the predicate holds at)
FindName(devices, hits) ==
    IF hits = {} THEN None
    ELSE Some(devices[CHOOSE i \in hits : \A j \in hits : i <= j].name)

\* DefaultInput with the capability test forgotten
DefaultInput_AnyCapability(devices) ==
    FindName(devices, {i \in DOMAIN devices : LooksDefault(devices[i].name)})

DefaultInput(devices) ==
    FindName(devices, {i \in DOMAIN devices :
                          devices[i].input_channels > 0 /\ LooksDefault(devices[i].name)})

DefaultOutput(devices) ==
    FindName(devices, {i \in DOMAIN devices :
                          devices[i].output_channels > 0 /\ LooksDefault(devices[i].name)})

\* all_devices after the two match statements: an Err contributes nothing
AllDevices(cpal, alsa) ==
    (IF cpal.is_ok THEN cpal.devices ELSE <<>>) \o (IF alsa.is_ok THEN alsa.devices ELSE <<>>)

\* get_system_audio_info with the enumerator's error propagated (get_cpal_devices()?)
GetSystemAudioInfo_Propagate(cpal, alsa) ==
    LET all_devices == AllDevices(cpal, alsa)
    IN IF ~cpal.is_ok
       THEN [is_ok |-> FALSE, devices |-> <<>>, default_input |-> None,
             default_output |-> None, total_input_devices |-> 0, total_output_devices |-> 0]
       ELSE [is_ok |-> TRUE,
             devices |-> all_devices,
             default_input |-> DefaultInput(all_devices),
             default_output |-> DefaultOutput(all_devices),
             total_input_devices |-> CountInput(all_devices),
             total_output_devices |-> CountOutput(all_devices)]

\* get_system_audio_info, given what the two enumerators returned
GetSystemAudioInfo(cpal, alsa) ==
    LET all_devices == AllDevices(cpal, alsa)
    IN [is_ok |-> TRUE,
        devices |-> all_devices,
        default_input |-> DefaultInput(all_devices),
        default_output |-> DefaultOutput(all_devices),
        total_input_devices |-> CountInput(all_devices),
        total_output_devices |-> CountOutput(all_devices)]

\* Recount with the two count assignments left out
Recount_Stale(info, filtered) ==
    IF ~filtered.ok THEN Panic ELSE Ok([info EXCEPT !.devices = filtered.val])

\* main: the assignment of the filtered list and the recount; filtered is the
\* result of filter_devices, whose panic ends main
Recount(info, filtered) ==
    IF ~filtered.ok THEN Panic
    ELSE Ok([info EXCEPT !.devices = filtered.val,
                         !.total_input_devices = CountInput(filtered.val),
                         !.total_output_devices = CountOutput(filtered.val)])

\* main, from the filtering to the recount: Ok(system_info), or a panic
FilterAndRecount(info, card_filter, device_filter, show_all, file) ==
    Recount(info, FilterDevices(info.devices, card_filter, device_filter, show_all, file))

(***************************************************************************)
(* Inputs: device names, filter tokens and card listing lines.             *)
(***************************************************************************)
N_hw00 == <<"h","w",":","0",",","0">>
N_plughw00 == <<"p","l","u","g","h","w",":","0",",","0">>
N_dmix00 == <<"d","m","i","x",":","0",",","0">>
N_dsnoop00 == <<"d","s","n","o","o","p",":","0",",","0">>
N_surround40 == <<"s","u","r","r","o","u","n","d","4","0",":","0">>
N_iec958_0 == <<"i","e","c","9","5","8",":","0">>
N_plugplug == <<"p","l","u","g","h","w",":","p","l","u","g","h","w",":","0">>
N_hwplug == <<"h","w",":","p","l","u","g","h","w",":","0">>
N_sysdefaultPCH == <<"s","y","s","d","e","f","a","u","l","t",":","C","A","R","D","=","P","C","H">>
N_default == <<"d","e","f","a","u","l","t">>
T_card0 == <<"c","a","r","d","0">>
T_Intel == <<"I","n","t","e","l">>
LINE_header == <<"-","-","-"," ","c","a","r","d","s">>
LINE_PCH == <<" ","0"," ","[","P","C","H"," "," ","]",":"," ","H","D","A","-","I","n","t","e","l"," ","-"," ","H","D","A"," ","I","n","t","e","l"," ","P","C","H">>
LINE_cont == <<" "," "," "," ","H","D","A"," ","a","t"," ","i","r","q"," ","3","3">>
LINE_nodash == <<" ","2"," ","[","L","o","o","p","]">>
LINE_swapped == <<" ","]"," ","["," ","-"," ","x">>

\* a device record as an enumerator emits it: its type follows its channels
Dev(name, input_channels, output_channels, driver) ==
    [name |-> name, device_type |-> DeviceType(input_channels, output_channels),
     input_channels |-> input_channels, output_channels |-> output_channels,
     supported_sample_rates |-> <<>>, driver |-> driver]

SeqsUpTo(S, n) == UNION {[1..k -> S] : k \in 0..n}

\* the devices lists handed to filter_devices are drawn from
FilterUniverse ==
    {Dev(N_hw00, 0, 2, "ALSA"), Dev(N_hw00, 2, 0, "ALSA"), Dev(N_plughw00, 2, 2, "ALSA"),
     Dev(N_dmix00, 0, 2, "CPAL"), Dev(N_dsnoop00, 2, 0, "CPAL"),
     Dev(N_surround40, 0, 2, "CPAL"), Dev(N_iec958_0, 0, 2, "CPAL"),
     Dev(N_plugplug, 0, 2, "CPAL"), Dev(N_hwplug, 0, 2, "CPAL"),
     Dev(N_sysdefaultPCH, 2, 2, "CPAL")}

CardFilters == {None, Some(T_card0)}
DeviceFilters == {None, Some(T_Intel)}
CardFiles == {NoFile, File(<<LINE_header, LINE_PCH, LINE_cont>>), File(<<LINE_PCH, LINE_swapped>>)}

(***************************************************************************)
(* SpecFilter: filter_devices on a list, then on its own output.           *)
(***************************************************************************)
InitFilter ==
    /\ flt \in [stage : {"input"}, devices : SeqsUpTo(FilterUniverse, MaxLen),
                card_filter : CardFilters, device_filter : DeviceFilters,
                show_all : BOOLEAN, file : CardFiles, out : {Panic}, out2 : {Panic}]
    /\ pc = "off" /\ cards_file = NoFile /\ cpal_result = Idle /\ alsa_result = Idle
    /\ snapshot = Idle /\ system_info = Idle /\ args = Idle /\ prb = Idle /\ crd = Idle /\ pcm = Idle

FilterOnce ==
    /\ flt.stage = "input"
    /\ flt' = [flt EXCEPT !.stage = "once",
                          !.out = FilterDevices(flt.devices, flt.card_filter,
                                                flt.device_filter, flt.show_all, flt.file)]
    /\ UNCHANGED <<pc, cards_file, cpal_result, alsa_result, snapshot, system_info, args, prb, crd, pcm>>

FilterTwice ==
    /\ flt.stage = "once"
    /\ flt.out.ok
    /\ flt' = [flt EXCEPT !.stage = "twice",
                          !.out2 = FilterDevices(flt.out.val, flt.card_filter,
                                                 flt.device_filter, flt.show_all, flt.file)]
    /\ UNCHANGED <<pc, cards_file, cpal_result, alsa_result, snapshot, system_info, args, prb, crd, pcm>>

NextFilter == FilterOnce \/ FilterTwice

SpecFilter == InitFilter /\ [][NextFilter]_vars

(***************************************************************************)
(* Claims about filter_devices (checked under SpecFilter).                 *)
(***************************************************************************)
FilterRan == flt.stage \in {"once", "twice"} /\ flt.out.ok

\* the list that enters the dedup stage
BeforeDedup ==
    NameStage(CardStage(flt.devices, flt.card_filter, GetCardMapping(flt.file)),
              flt.device_filter, GetCardDescriptions(flt.file)).val

\* the name with a leading "plughw:" read as "hw:"
LeadingNorm(name) ==
    IF StartsWith(name, L_plughw)
    THEN L_hw \o SubSeq(name, Len(L_plughw) + 1, Len(name))
    ELSE name

HasClaimedPrefix(name) ==
    \/ StartsWith(name, <<"d","m","i","x",":">>)
    \/ StartsWith(name, <<"d","s","n","o","o","p",":">>)
    \/ StartsWith(name, <<"s","u","r","r","o","u","n","d">>)
    \/ StartsWith(name, <<"i","e","c","9","5","8",":">>)

\* the first position of a list whose name has the given leading-normalized name
FirstWith(list, norm) ==
    CHOOSE i \in DOMAIN list :
        /\ LeadingNorm(list[i].name) = norm
        /\ \A j \in 1..(i - 1) : LeadingNorm(list[j].name) # norm

\* C3: with show-all false the output of filter_devices holds no two devices of the
\* same normalized name (a leading "plughw:" read as "hw:"); for each normalized
\* name of a non-virtual device entering the dedup stage the survivor is the first
\* device carrying it, with its stored name (and every other field) unchanged.
C3_FirstSeenPerLeadingNorm ==
    (FilterRan /\ ~flt.show_all) =>
        LET out == flt.out.val
            pre == BeforeDedup
        IN /\ \A i, j \in DOMAIN out :
                  i < j => LeadingNorm(out[i].name) # LeadingNorm(out[j].name)
           /\ \A i \in DOMAIN pre :
                  ~HasClaimedPrefix(pre[i].name) =>
                      \E k \in DOMAIN out :
                          out[k] = pre[FirstWith(pre, LeadingNorm(pre[i].name))]
           /\ \A k \in DOMAIN out :
                  \E i \in DOMAIN pre :
                      /\ out[k] = pre[i]
                      /\ i = FirstWith(pre, LeadingNorm(pre[i].name))

\* C4: filter_devices is idempotent: applied to its own output with the same card
\* filter, name filter, show-all flag and card listing file it returns the same list.
C4_FilterIdempotent ==
    flt.stage = "twice" => (flt.out2.ok /\ flt.out2.val = flt.out.val)

C4_Witness ==
    /\ flt.stage = "twice" /\ ~flt.show_all /\ flt.card_filter.some
    /\ flt.out.val # <<>> /\ Len(flt.out.val) < Len(flt.devices)

\* C5: with show-all false no device named dmix:..., dsnoop:..., surround... or
\* iec958:... is in the output; with show-all true and no card or name filter the
\* output is the input list, unchanged.
C5_VirtualSuppressedUnlessShowAll ==
    /\ (FilterRan /\ ~flt.show_all) =>
           \A i \in DOMAIN flt.out.val : ~HasClaimedPrefix(flt.out.val[i].name)
    /\ (flt.stage \in {"once", "twice"} /\ flt.show_all
            /\ ~flt.card_filter.some /\ ~flt.device_filter.some) =>
           (flt.out.ok /\ flt.out.val = flt.devices)

C5_Witness ==
    /\ FilterRan /\ ~flt.show_all
    /\ \E i \in DOMAIN flt.devices : flt.devices[i].name = N_iec958_0
    /\ \E i \in DOMAIN flt.devices : flt.devices[i].name = N_hw00
    /\ Len(flt.out.val) = 1

C5_WitnessShowAll ==
    /\ FilterRan /\ flt.show_all /\ ~flt.card_filter.some /\ ~flt.device_filter.some
    /\ \E i \in DOMAIN flt.devices : flt.devices[i].name = N_dmix00
    /\ \E i \in DOMAIN flt.devices : flt.devices[i].name = N_plughw00

(***************************************************************************)
(* SpecProbe: one iteration of the probing loop of get_alsa_devices.       *)
(***************************************************************************)
N_hw10 == <<"h","w",":","1",",","0">>
ProbedNames == {N_default, N_hw00, N_hw10, N_plughw00}

RateValues == {1000, 2000, 44100, 48000, 200000}
RateRanges == {r \in RateValues \X RateValues : r[1] <= r[2]}
Unconfigured == [configured |-> FALSE, channels |-> None, rate |-> None]
DirectionOutcomes ==
    {Unconfigured} \cup
    [configured : {TRUE}, channels : {None, Some(2)},
     rate : {None} \cup {Some(r) : r \in RateRanges}]

InitProbe ==
    /\ prb \in [stage : {"open"}, device_name : ProbedNames,
                playback : DirectionOutcomes, capture : DirectionOutcomes,
                result : {<<>>}]
    /\ pc = "off" /\ cards_file = NoFile /\ cpal_result = Idle /\ alsa_result = Idle
    /\ snapshot = Idle /\ system_info = Idle /\ args = Idle /\ flt = Idle /\ crd = Idle /\ pcm = Idle

Probe ==
    /\ prb.stage = "open"
    /\ prb' = [prb EXCEPT !.stage = "probed",
                          !.result = ProbeName(prb.device_name, prb.playback, prb.capture)]
    /\ UNCHANGED <<pc, cards_file, cpal_result, alsa_result, snapshot, system_info, args, flt, crd, pcm>>

NextProbe == Probe

SpecProbe == InitProbe /\ [][NextProbe]_vars

(***************************************************************************)
(* Claims about the prober (checked under SpecProbe).                      *)
(***************************************************************************)
Probed == prb.stage = "probed"
Reported == Probed /\ prb.result.emitted
ReportedRates == prb.result.device.supported_sample_rates
Obtained(dir) == dir.configured /\ dir.rate.some

RECURSIVE Ascending(_)
Ascending(S) ==
    IF S = {} THEN <<>>
    ELSE LET m == CHOOSE x \in S : \A y \in S : x <= y
         IN <<m>> \o Ascending(S \ {m})

CommonRateSet == {8000, 11025, 22050, 44100, 48000, 88200, 96000, 176400, 192000}

\* the list the claim gives for a range
ClaimedRates(range) ==
    LET inside == {r \in CommonRateSet : range[1] <= r /\ r <= range[2]}
    IN IF inside # {} THEN Ascending(inside) ELSE <<range[1], range[2]>>

C9_AtLeastTwo ==
    (Reported /\ (Obtained(prb.playback) \/ Obtained(prb.capture))) =>
        Len(ReportedRates) >= 2

\* C9 amended: whenever a rate range is obtained for a device, its
\* supported-rates list has at least 1 entry.
C9_AtLeastOne ==
    (Reported /\ (Obtained(prb.playback) \/ Obtained(prb.capture))) =>
        Len(ReportedRates) >= 1

C9_Witness ==
    /\ Reported /\ Obtained(prb.playback)
    /\ prb.playback.rate.v = <<44100, 44100>>
    /\ ReportedRates = <<44100>>

(***************************************************************************)
(* SpecCards: get_card_mapping and get_card_descriptions on a card listing *)
(* file.                                                                   *)
(***************************************************************************)
CardLines == {LINE_header, LINE_PCH, LINE_cont, LINE_nodash, LINE_swapped, <<>>}

InitCards ==
    /\ crd \in [stage : {"read"},
                file : {NoFile} \cup {File(l) : l \in SeqsUpTo(CardLines, MaxLines)},
                mapped : {FALSE}, described : {FALSE},
                mapping : {Panic}, descriptions : {Panic}]
    /\ pc = "off" /\ cards_file = NoFile /\ cpal_result = Idle /\ alsa_result = Idle
    /\ snapshot = Idle /\ system_info = Idle /\ args = Idle /\ flt = Idle /\ prb = Idle /\ pcm = Idle

CallGetCardMapping ==
    /\ crd.stage = "read" /\ ~crd.mapped
    /\ crd' = [crd EXCEPT !.mapped = TRUE, !.mapping = GetCardMapping(crd.file)]
    /\ UNCHANGED <<pc, cards_file, cpal_result, alsa_result, snapshot, system_info, args, flt, prb, pcm>>

CallGetCardDescriptions ==
    /\ crd.stage = "read" /\ ~crd.described
    /\ crd' = [crd EXCEPT !.described = TRUE, !.descriptions = GetCardDescriptions(crd.file)]
    /\ UNCHANGED <<pc, cards_file, cpal_result, alsa_result, snapshot, system_info, args, flt, prb, pcm>>

NextCards == CallGetCardMapping \/ CallGetCardDescriptions

SpecCards == InitCards /\ [][NextCards]_vars

(***************************************************************************)
(* Claims about the card metadata parsers (checked under SpecCards).       *)
(***************************************************************************)
HasLine(line) == \E i \in DOMAIN crd.file.lines : crd.file.lines[i] = line

\* C10: for every content of the card listing file both parsers finish without
\* crashing, and a well-formed line is parsed into the mappings whatever other
\* lines (a line with ']' before '[' included) the file holds.
C10_ParsersNeverCrash ==
    /\ crd.mapped =>
           /\ crd.mapping.ok
           /\ (crd.file.readable /\ HasLine(LINE_PCH)) =>
                  /\ <<"0">> \in DOMAIN crd.mapping.val
                  /\ crd.mapping.val[<<"0">>] = <<"P","C","H">>
    /\ crd.described =>
           /\ crd.descriptions.ok
           /\ (crd.file.readable /\ HasLine(LINE_PCH)) =>
                  /\ <<"P","C","H">> \in DOMAIN crd.descriptions.val
                  /\ crd.descriptions.val[<<"P","C","H">>]
                         = <<"H","D","A"," ","I","n","t","e","l"," ","P","C","H">>

\* without the line that has ']' before '[', the parsers do as C10 says
C10_HoldsWithoutSwappedBrackets ==
    (crd.file.readable /\ HasLine(LINE_swapped)) \/ C10_ParsersNeverCrash

(***************************************************************************)
(* Spec: one run of main() without --list: get_system_audio_info (the two  *)
(* enumerators, then the aggregation), then filter_devices and the         *)
(* recount.  The host, the /proc/asound tree, the probe outcomes, the card *)
(* listing file and the command line are the run's inputs.                 *)
(***************************************************************************)
INFO_free == <<"s","u","b","d","e","v","i","c","e","s","_","c","o","u","n","t",":"," ","1","\n","s","u","b","d","e","v","i","c","e","s","_","a","v","a","i","l",":"," ","1","\n">>
INFO_busy == <<"s","u","b","d","e","v","i","c","e","s","_","c","o","u","n","t",":"," ","1","\n","s","u","b","d","e","v","i","c","e","s","_","a","v","a","i","l",":"," ","0","\n">>
STREAM_both == <<"P","l","a","y","b","a","c","k",":","\n"," ","C","h","a","n","n","e","l","s",":"," ","2","\n","C","a","p","t","u","r","e",":","\n"," ","C","h","a","n","n","e","l","s",":"," ","1","\n">>
STREAM_nochannels == <<"C","a","p","t","u","r","e",":","\n"," ","R","a","t","e","s",":"," ","4","8","0","0","0","\n">>
DIR_card0 == <<"c","a","r","d","0">>
DIR_card1 == <<"c","a","r","d","1">>
DIR_version == <<"v","e","r","s","i","o","n">>
DIR_pcm0p == <<"p","c","m","0","p">>
DIR_pcm0c == <<"p","c","m","0","c">>
DIR_pcm1p == <<"p","c","m","1","p">>
DIR_id == <<"i","d">>

PcmDir(name, info) == [name |-> name, info |-> info]
RootDir(name, readable, stream0, entries) ==
    [name |-> name, readable |-> readable, stream0 |-> stream0, entries |-> entries]
Tree(entries) == [readable |-> TRUE, entries |-> entries]
NoTree == [readable |-> FALSE, entries |-> <<>>]

ProcTrees ==
    {NoTree,
     Tree(<<RootDir(DIR_version, FALSE, None, <<>>),
            RootDir(DIR_card0, TRUE, None,
                    <<PcmDir(DIR_id, None), PcmDir(DIR_pcm0p, Some(INFO_free)),
                      PcmDir(DIR_pcm0c, Some(INFO_free)), PcmDir(DIR_pcm1p, None)>>)>>),
     Tree(<<RootDir(DIR_card0, TRUE, Some(STREAM_both),
                    <<PcmDir(DIR_pcm0p, Some(INFO_busy))>>)>>),
     Tree(<<RootDir(DIR_card1, TRUE, Some(STREAM_nochannels),
                    <<PcmDir(DIR_pcm0c, Some(INFO_free))>>)>>)}

\* the well-known names some hardware answers to on the modelled host
PresentNames == {N_hw00, N_plughw00}
Configured == [configured |-> TRUE, channels |-> Some(2), rate |-> Some(<<44100, 48000>>)]
PresentOutcomes ==
    {<<Unconfigured, Unconfigured>>, <<Configured, Configured>>, <<Unconfigured, Configured>>}
ProbeScenarios ==
    {[i \in 1..Len(device_names) |->
         IF device_names[i] \in PresentNames THEN present[device_names[i]]
         ELSE <<Unconfigured, Unconfigured>>] :
     present \in [PresentNames -> PresentOutcomes]}

DefaultConfigs == {None, Some([channels |-> 2, sample_rate |-> 48000])}
HostDevices ==
    [name : {Some(N_default), Some(N_sysdefaultPCH)},
     default_input_config : DefaultConfigs,
     default_output_config : {Some([channels |-> 2, sample_rate |-> 48000])},
     supported_input_configs : {None},
     supported_output_configs : {Some(<<<<44100, 48000>>>>)}]
    \cup
    [name : {None},
     default_input_config : {None},
     default_output_config : DefaultConfigs,
     supported_input_configs : {None},
     supported_output_configs : {None}]
Hosts == {None} \cup {Some(h) : h \in SeqsUpTo(HostDevices, MaxCpal)}

RunFiles == {NoFile, File(<<LINE_header, LINE_PCH>>), File(<<LINE_swapped>>)}

Init ==
    /\ pc = "start"
    /\ cards_file \in RunFiles
    /\ args \in [card_filter : CardFilters, device_filter : DeviceFilters, show_all : BOOLEAN]
    /\ cpal_result = Idle /\ alsa_result = Idle /\ snapshot = Idle /\ system_info = Idle
    /\ flt = Idle /\ prb = Idle /\ crd = Idle /\ pcm = Idle

\* get_system_audio_info: the call of get_cpal_devices
CallGetCpalDevices ==
    /\ pc = "start"
    /\ \E host \in Hosts : cpal_result' = GetCpalDevices(host)
    /\ pc' = "cpal"
    /\ UNCHANGED <<cards_file, alsa_result, snapshot, system_info, args, flt, prb, crd, pcm>>

\* get_system_audio_info: the call of get_alsa_devices
CallGetAlsaDevices ==
    /\ pc = "cpal"
    /\ \E tree \in ProcTrees, probes \in ProbeScenarios :
          \E r \in {GetAlsaDevices(tree, probes, cards_file)} :
              /\ alsa_result' = IF r.ok THEN r.val ELSE alsa_result
              /\ pc' = IF r.ok THEN "alsa" ELSE "panicked"
    /\ UNCHANGED <<cards_file, cpal_result, snapshot, system_info, args, flt, prb, crd, pcm>>

\* get_system_audio_info: the aggregation and the return
Aggregate ==
    /\ pc = "alsa"
    /\ snapshot' = GetSystemAudioInfo(cpal_result, alsa_result)
    /\ pc' = "aggregated"
    /\ UNCHANGED <<cards_file, cpal_result, alsa_result, system_info, args, flt, prb, crd, pcm>>

\* main: filter_devices and the recount
ApplyFilters ==
    /\ pc = "aggregated"
    /\ \E r \in {FilterAndRecount(snapshot, args.card_filter, args.device_filter,
                                    args.show_all, cards_file)} :
          /\ system_info' = IF r.ok THEN r.val ELSE system_info
          /\ pc' = IF r.ok THEN "final" ELSE "panicked"
    /\ UNCHANGED <<cards_file, cpal_result, alsa_result, snapshot, args, flt, prb, crd, pcm>>

Next == CallGetCpalDevices \/ CallGetAlsaDevices \/ Aggregate \/ ApplyFilters

Spec == Init /\ [][Next]_vars

(***************************************************************************)
(* Claims about a run of main (checked under Spec).                        *)
(***************************************************************************)
Aggregated == pc \in {"aggregated", "final"}
Final == pc = "final"

Tally(devices, has(_)) == Len(SelectSeq(devices, has))

TotalsMatch(info) ==
    /\ info.total_input_devices = Tally(info.devices, LAMBDA d : d.input_channels > 0)
    /\ info.total_output_devices = Tally(info.devices, LAMBDA d : d.output_channels > 0)

\* C1: in the final SystemAudioInfo, whatever the card filter, the name filter and
\* the show-all flag, total_input_devices is the number of devices of the final
\* list with input_channels > 0 and total_output_devices the number with
\* output_channels > 0; the same holds of the aggregator's snapshot.
C1_TotalsMatchList ==
    /\ Aggregated => TotalsMatch(snapshot)
    /\ Final => TotalsMatch(system_info)

C1_Witness ==
    /\ Final /\ args.card_filter.some /\ ~args.show_all
    /\ system_info.total_input_devices < snapshot.total_input_devices
    /\ system_info.total_input_devices > 0
    /\ system_info.total_output_devices < snapshot.total_output_devices

TypeConsistent(d) ==
    /\ d.device_type \in {"Input/Output", "Input", "Output", "Unknown"}
    /\ d.device_type = "Input/Output" <=> (d.input_channels > 0 /\ d.output_channels > 0)
    /\ d.device_type = "Input" <=> (d.input_channels > 0 /\ d.output_channels = 0)
    /\ d.device_type = "Output" <=> (d.input_channels = 0 /\ d.output_channels > 0)
    /\ d.device_type = "Unknown" <=> (d.input_channels = 0 /\ d.output_channels = 0)

AllConsistent(devices) == \A i \in DOMAIN devices : TypeConsistent(devices[i])

\* C2: every record an enumerator emits (the audio-API enumerator; the low-level
\* enumerator's filesystem-discovered and probed devices) and every record of the
\* aggregated and of the final list has the device_type its channel counts give.
C2_DeviceTypeFollowsChannels ==
    /\ pc \in {"cpal", "alsa", "aggregated", "final"} => AllConsistent(cpal_result.devices)
    /\ pc \in {"alsa", "aggregated", "final"} => AllConsistent(alsa_result.devices)
    /\ Aggregated => AllConsistent(snapshot.devices)
    /\ Final => AllConsistent(system_info.devices)

C2_Witness ==
    /\ Final
    /\ \E i \in DOMAIN alsa_result.devices :
           /\ alsa_result.devices[i].name = <<"h","w",":","0",",","0">>
           /\ alsa_result.devices[i].supported_sample_rates = <<>>
           /\ alsa_result.devices[i].device_type = "Input"
    /\ \E i \in DOMAIN alsa_result.devices : alsa_result.devices[i].device_type = "Input/Output"
    /\ \E i \in DOMAIN cpal_result.devices : cpal_result.devices[i].device_type = "Output"
    /\ system_info.devices # <<>>

NameLooksDefault(name) ==
    \/ Contains(name, <<"d","e","f","a","u","l","t">>)
    \/ Contains(name, <<"h","w",":","0">>)

\* whether an optional name is the name of the first device, in list order, that
\* has the capability and a default-looking name, and is absent iff there is none
IsFirstDefault(opt, devices, capable(_)) ==
    LET ok(i) == capable(devices[i]) /\ NameLooksDefault(devices[i].name)
    IN IF \E i \in DOMAIN devices : ok(i)
       THEN /\ opt.some
            /\ \E i \in DOMAIN devices :
                   ok(i) /\ (\A j \in 1..(i - 1) : ~ok(j)) /\ opt.v = devices[i].name
       ELSE ~opt.some

\* C6: in the aggregator's snapshot default_input is the name of the first device,
\* in list order, with input_channels > 0 whose name contains "default" or "hw:0",
\* absent iff there is none; likewise default_output; an empty list gives both
\* totals 0 and no default.
C6_DefaultsAreFirstMatch ==
    Aggregated =>
        /\ IsFirstDefault(snapshot.default_input, snapshot.devices,
                          LAMBDA d : d.input_channels > 0)
        /\ IsFirstDefault(snapshot.default_output, snapshot.devices,
                          LAMBDA d : d.output_channels > 0)
        /\ snapshot.devices = <<>> =>
               /\ snapshot.total_input_devices = 0 /\ snapshot.total_output_devices = 0
               /\ ~snapshot.default_input.some /\ ~snapshot.default_output.some

C6_Witness ==
    /\ Aggregated /\ Len(snapshot.devices) >= 2
    /\ snapshot.devices[1].name = N_default /\ snapshot.devices[1].input_channels = 0
    /\ snapshot.default_output = Some(N_default)
    /\ snapshot.default_input.some /\ snapshot.default_input.v # N_default

\* C7: a failing backend never fails the aggregation: when an enumerator returned an
\* error, get_system_audio_info returns a successful snapshot whose devices are
\* exactly the other enumerator's, in their order; when both did, an empty list.
C7_BackendFailureNotFatal ==
    Aggregated =>
        /\ snapshot.is_ok
        /\ (~cpal_result.is_ok /\ alsa_result.is_ok) => snapshot.devices = alsa_result.devices
        /\ (cpal_result.is_ok /\ ~alsa_result.is_ok) => snapshot.devices = cpal_result.devices
        /\ (~cpal_result.is_ok /\ ~alsa_result.is_ok) => snapshot.devices = <<>>
        /\ (cpal_result.is_ok /\ alsa_result.is_ok) =>
               snapshot.devices = cpal_result.devices \o alsa_result.devices

C7_Witness ==
    /\ Aggregated /\ ~cpal_result.is_ok
    /\ Len(alsa_result.devices) >= 2 /\ snapshot.devices = alsa_result.devices

AlsaReturned == pc \in {"alsa", "aggregated", "final"}

\* C11: in the list get_alsa_devices returns (the devices found under /proc/asound
\* followed by the probed well-known names) no two records carry the same name,
\* for any card directory tree and any probe outcomes.
C11_AlsaNamesUnique ==
    AlsaReturned =>
        \A i, j \in DOMAIN alsa_result.devices :
            i # j => alsa_result.devices[i].name # alsa_result.devices[j].name

(***************************************************************************)
(* Further claims about the prober (checked under SpecProbe).              *)
(***************************************************************************)
StrictlyAscending(rates) == \A i \in 1..(Len(rates) - 1) : rates[i] < rates[i + 1]

\* C12: the supported_sample_rates of every record the prober emits is strictly
\* ascending (sorted, no repeated value), for every range [min, max] reported to
\* it, min = max included.
C12_RatesStrictlyAscending == Reported => StrictlyAscending(ReportedRates)

(***************************************************************************)
(* SpecTokens: filter_devices once, over card tokens in their several      *)
(* spellings and a name token that tells an alias from its plain name.     *)
(***************************************************************************)
\* the devices lists: "hw:0,0", "plughw:0,0", "hw:1,0", "sysdefault:CARD=PCH",
\* "front:CARD=card0"
TokenUniverse ==
    {Dev(N_hw00, 0, 2, "ALSA"), Dev(N_plughw00, 2, 2, "ALSA"), Dev(N_hw10, 2, 0, "ALSA"),
     Dev(N_sysdefaultPCH, 2, 2, "CPAL"),
     Dev(<<"f","r","o","n","t",":","C","A","R","D","=","c","a","r","d","0">>, 0, 2, "CPAL")}
\* --card: absent, "card0", "0", "PCH", "cardcard0"
CardTokens ==
    {None, Some(T_card0), Some(<<"0">>), Some(<<"P","C","H">>),
     Some(<<"c","a","r","d","c","a","r","d","0">>)}
\* --device: absent, "plug"
NameTokens == {None, Some(<<"p","l","u","g">>)}

InitTokens ==
    /\ flt \in [stage : {"input"}, devices : SeqsUpTo(TokenUniverse, MaxLen),
                card_filter : CardTokens, device_filter : NameTokens,
                show_all : BOOLEAN, file : CardFiles, out : {Panic}, out2 : {Panic}]
    /\ pc = "off" /\ cards_file = NoFile /\ cpal_result = Idle /\ alsa_result = Idle
    /\ snapshot = Idle /\ system_info = Idle /\ args = Idle /\ prb = Idle /\ crd = Idle /\ pcm = Idle

NextTokens == FilterOnce

SpecTokens == InitTokens /\ [][NextTokens]_vars

(***************************************************************************)
(* Claims about the stages of filter_devices (checked under SpecTokens).   *)
(***************************************************************************)
\* the token with one leading "card" removed
ClaimedNum(token) ==
    IF StartsWith(token, <<"c","a","r","d">>) THEN SubSeq(token, 5, Len(token)) ELSE token

\* whether the claim keeps a name under a card token, given the card mapping
ClaimedCardKeeps(name, token, mapping) ==
    \/ Contains(name, <<"h","w",":">> \o ClaimedNum(token))
    \/ Contains(name, <<"c","a","r","d">> \o ClaimedNum(token))
    \/ /\ ClaimedNum(token) \in DOMAIN mapping
       /\ Contains(name, <<"C","A","R","D","=">> \o mapping[ClaimedNum(token)])
    \/ Contains(name, <<"C","A","R","D","=">> \o token)

\* C13: with a card filter token given, filter_devices keeps a device iff its name
\* contains "hw:<num>", "card<num>", "CARD=<the mapping's name for num>" or
\* "CARD=<raw token>", <num> being the token less one leading "card"; the kept
\* devices stay in their order.  Every device of the output passes that test, and
\* with no name filter and show-all set the output is exactly the devices passing
\* it, in input order.
C13_CardFilterKeepsExactly ==
    (FilterRan /\ flt.card_filter.some) =>
        /\ \A i \in DOMAIN flt.out.val :
               ClaimedCardKeeps(flt.out.val[i].name, flt.card_filter.v,
                                GetCardMapping(flt.file).val)
        /\ (~flt.device_filter.some /\ flt.show_all) =>
               flt.out.val =
                   SelectSeq(flt.devices,
                             LAMBDA d : ClaimedCardKeeps(d.name, flt.card_filter.v,
                                                         GetCardMapping(flt.file).val))

C13_Witness ==
    /\ FilterRan /\ flt.card_filter = Some(T_card0) /\ ~flt.device_filter.some /\ flt.show_all
    /\ flt.file # NoFile
    /\ Len(flt.devices) = 2 /\ flt.devices[1].name = N_hw10
    /\ Len(flt.out.val) = 1 /\ flt.out.val[1].name = N_sysdefaultPCH

\* whether the device at a position of the input passes the card and name filters
PassesFilters(j) ==
    /\ flt.card_filter.some =>
           CardFilterKeeps(flt.devices[j].name, flt.card_filter.v, GetCardMapping(flt.file).val)
    /\ flt.device_filter.some =>
           NameFilterKeeps(flt.devices[j].name, flt.device_filter.v,
                           GetCardDescriptions(flt.file).val)

\* the positions the claim keeps with show-all false: the device passes both
\* filters, is not virtual, and no earlier device that passes both filters has its
\* normalized name
ClaimedSurvivors ==
    {j \in DOMAIN flt.devices :
        /\ PassesFilters(j)
        /\ ~HasClaimedPrefix(flt.devices[j].name)
        /\ \A i \in 1..(j - 1) :
               PassesFilters(i) =>
                   LeadingNorm(flt.devices[i].name) # LeadingNorm(flt.devices[j].name)}

\* C14: the stages run in the order card filter, name filter, dedup: a device a
\* filter rejects is never recorded as seen, so with show-all false the output is
\* the devices at the positions that pass both filters, are not virtual and have no
\* earlier alias passing both filters, in input order; an alias rejected by a
\* filter does not suppress a later one.
C14_FiltersBeforeDedup ==
    (FilterRan /\ ~flt.show_all) =>
        /\ Len(flt.out.val) = Cardinality(ClaimedSurvivors)
        /\ \A j \in ClaimedSurvivors :
               flt.out.val[Cardinality({i \in ClaimedSurvivors : i <= j})] = flt.devices[j]

C14_Witness ==
    /\ FilterRan /\ ~flt.show_all /\ flt.device_filter.some /\ ~flt.card_filter.some
    /\ Len(flt.devices) = 2
    /\ flt.devices[1].name = N_hw00 /\ flt.devices[2].name = N_plughw00
    /\ ~PassesFilters(1)
    /\ Len(flt.out.val) = 1 /\ flt.out.val[1].name = N_plughw00

(***************************************************************************)
(* SpecPcm: read_pcm_info on one pcm directory of card 0, and              *)
(* parse_stream_channels on the card's stream0 text.                       *)
(***************************************************************************)
MaxStreamLines == 3

\* the lines a stream0 text is made of: "Playback:", "Capture:", "  Channels: 2",
\* "  Channels: 1", "  Channels: x"
StreamLines ==
    {<<"P","l","a","y","b","a","c","k",":">>,
     <<"C","a","p","t","u","r","e",":">>,
     <<" "," ","C","h","a","n","n","e","l","s",":"," ","2">>,
     <<" "," ","C","h","a","n","n","e","l","s",":"," ","1">>,
     <<" "," ","C","h","a","n","n","e","l","s",":"," ","x">>}

\* the text of a file holding the given lines, each ended by "\n"
RECURSIVE UnLines(_)
UnLines(lines) ==
    IF lines = <<>> THEN <<>> ELSE Head(lines) \o <<"\n">> \o UnLines(Tail(lines))

\* stream0: unreadable, or a text of up to MaxStreamLines lines.  info: unreadable,
\* one subdevice free, one subdevice taken, "subdevices_count: 10" with none
\* available, "subdevices_count: 2" with none available
InitPcm ==
    /\ pcm \in [stage : {"input"},
                stream0 : {None} \cup {Some(UnLines(l)) : l \in SeqsUpTo(StreamLines, MaxStreamLines)},
                info : {None, Some(INFO_free), Some(INFO_busy),
                        Some(<<"s","u","b","d","e","v","i","c","e","s","_","c","o","u","n","t",":"," ","1","0","\n","s","u","b","d","e","v","i","c","e","s","_","a","v","a","i","l",":"," ","0","\n">>),
                        Some(<<"s","u","b","d","e","v","i","c","e","s","_","c","o","u","n","t",":"," ","2","\n","s","u","b","d","e","v","i","c","e","s","_","a","v","a","i","l",":"," ","0","\n">>)},
                stream_type : {"PLAYBACK", "CAPTURE"},
                file : {NoFile, File(<<LINE_swapped>>)},
                channels : {None}, pushed : {<<>>}]
    /\ pc = "off" /\ cards_file = NoFile /\ cpal_result = Idle /\ alsa_result = Idle
    /\ snapshot = Idle /\ system_info = Idle /\ args = Idle
    /\ flt = Idle /\ prb = Idle /\ crd = Idle

\* parse_stream_channels on the text read from stream0
CallParseStreamChannels ==
    /\ pcm.stage = "input" /\ pcm.stream0.some
    /\ pcm' = [pcm EXCEPT !.stage = "parsed",
                          !.channels = ParseStreamChannels(pcm.stream0.v, pcm.stream_type)]
    /\ UNCHANGED <<pc, cards_file, cpal_result, alsa_result, snapshot, system_info, args, flt, prb, crd>>

\* read_pcm_info, as get_proc_alsa_devices calls it for pcm0p or pcm0c of card0
CallReadPcmInfo ==
    /\ pcm.stage \in {"input", "parsed"}
    /\ pcm' = [pcm EXCEPT !.stage = "read",
                          !.pushed = ReadPcmInfo(pcm.stream0,
                                                 IF pcm.stream_type = "PLAYBACK"
                                                 THEN DIR_pcm0p ELSE DIR_pcm0c,
                                                 pcm.info, pcm.stream_type, <<"0">>, pcm.file)]
    /\ UNCHANGED <<pc, cards_file, cpal_result, alsa_result, snapshot, system_info, args, flt, prb, crd>>

NextPcm == CallParseStreamChannels \/ CallReadPcmInfo

SpecPcm == InitPcm /\ [][NextPcm]_vars

(***************************************************************************)
(* Claims about parse_stream_channels and read_pcm_info (checked under     *)
(* SpecPcm).                                                               *)
(***************************************************************************)
IsHeading(line) ==
    line \in {<<"P","l","a","y","b","a","c","k",":">>, <<"C","a","p","t","u","r","e",":">>}

HeadingOf(stream_type) ==
    IF stream_type = "PLAYBACK" THEN <<"P","l","a","y","b","a","c","k",":">>
    ELSE <<"C","a","p","t","u","r","e",":">>

IsChannelsLine(line) == StartsWith(Trim(line), <<"C","h","a","n","n","e","l","s",":">>)

\* the integer a "Channels:" line of the modelled texts carries, if it is one
ChannelsValue(line) ==
    IF line[Len(line)] = "1" THEN Some(1)
    ELSE IF line[Len(line)] = "2" THEN Some(2)
    ELSE None

\* what the claim gives: the value of the first "Channels:" line between the
\* direction's heading and the next heading; no result without the heading, without
\* such a line, or when its integer does not parse
ClaimedChannels(lines, stream_type) ==
    LET heads == {i \in DOMAIN lines : lines[i] = HeadingOf(stream_type)}
    IN IF heads = {} THEN None
       ELSE LET h == CHOOSE i \in heads : \A k \in heads : i <= k
                later == {i \in DOMAIN lines : i > h /\ IsHeading(lines[i])}
                stop == IF later = {} THEN Len(lines) + 1
                        ELSE CHOOSE i \in later : \A k \in later : i <= k
                found == {i \in (h + 1)..(stop - 1) : IsChannelsLine(lines[i])}
            IN IF found = {} THEN None
               ELSE ChannelsValue(lines[CHOOSE i \in found : \A k \in found : i <= k])

\* C15: parse_stream_channels returns the integer of the first "Channels:" line
\* inside the requested direction's section (from its heading to the next heading);
\* a "Channels:" line of a later section is never returned, and a missing heading
\* or an unparseable integer gives no result.
C15_ChannelsOfOwnSection ==
    pcm.stage = "parsed" =>
        pcm.channels = ClaimedChannels(Lines(pcm.stream0.v), pcm.stream_type)

\* read_pcm_info returned a device
Emitted == pcm.stage = "read" /\ Len(pcm.pushed) = 1 /\ pcm.pushed[1].ok
EmittedDevice == pcm.pushed[1].val

\* the emitted device's channels in the direction of the stream
DirectionChannels ==
    IF pcm.stream_type = "PLAYBACK" THEN EmittedDevice.output_channels
    ELSE EmittedDevice.input_channels

\* C16: for every stream found under /proc/asound with a readable info file, the
\* emitted device has 2 channels in the stream's direction whenever the count
\* cannot be obtained from stream0: when stream0 is unreadable, and when it is
\* readable but parse_stream_channels finds no value for the direction.
C16_TwoChannelsWhenUnknown ==
    Emitted =>
        /\ ~pcm.stream0.some => DirectionChannels = 2
        /\ (pcm.stream0.some /\ ~ParseStreamChannels(pcm.stream0.v, pcm.stream_type).some) =>
               DirectionChannels = 2

\* whether a text has a line that is exactly the given one
HasExactLine(text, line) == \E i \in DOMAIN Lines(text) : Lines(text)[i] = line

\* the info file reports no available subdevice out of exactly one
ClaimedInUse(info_content) ==
    /\ HasExactLine(info_content, <<"s","u","b","d","e","v","i","c","e","s","_","a","v","a","i","l",":"," ","0">>)
    /\ HasExactLine(info_content, <<"s","u","b","d","e","v","i","c","e","s","_","c","o","u","n","t",":"," ","1">>)

\* C17: the name of a device found under /proc/asound ends in " (IN USE)" iff its
\* info file reports zero available subdevices and a subdevice count of exactly
\* one; a file reporting any other count, 10 for instance, never gives the suffix.
C17_InUseIffOneOfOneTaken ==
    Emitted =>
        (EndsWith(EmittedDevice.name, <<" ","(","I","N"," ","U","S","E",")">>)
             <=> ClaimedInUse(pcm.info.v))

(***************************************************************************)
(* Further claims about a run of main (checked under Spec).                *)
(***************************************************************************)
\* whether an optional name, when set, is the name of the first device of the list
\* that has the capability and a default-looking name
SetMeansFirstDefault(opt, devices, capable(_)) ==
    opt.some =>
        \E i \in DOMAIN devices :
            /\ capable(devices[i]) /\ NameLooksDefault(devices[i].name)
            /\ \A j \in 1..(i - 1) :
                   ~(capable(devices[j]) /\ NameLooksDefault(devices[j].name))
            /\ opt.v = devices[i].name

\* C18: in the final SystemAudioInfo, after filtering, default_input (when set) is
\* the name of a device still in the final list, the first of that list with
\* input_channels > 0 whose name contains "default" or "hw:0"; likewise
\* default_output; no filter run leaves a default naming a device filtered out.
C18_DefaultsSurviveFiltering ==
    Final =>
        /\ SetMeansFirstDefault(system_info.default_input, system_info.devices,
                                LAMBDA d : d.input_channels > 0)
        /\ SetMeansFirstDefault(system_info.default_output, system_info.devices,
                                LAMBDA d : d.output_channels > 0)

====
